---- MODULE Spec2Model ----
\* The Superstore dashboard script (src/app.py) as a state machine.
\* The script is re-run from top to bottom on every interaction: the session
\* start and each widget change are the actions, and each action is one
\* complete pass load -> required-column check -> filter -> KPIs -> tables.
EXTENDS Integers, Sequences, FiniteSets, TLC

VARIABLES
    csv,            \* data/superstore.csv: [cols, rows], raw cells
    cache,          \* st.cache_data entry of load_data(DATA_PATH)
    date_range,     \* session value of the "Order Date range" widget (a tuple)
    selection,      \* session value of each multiselect, by column
    status,         \* "none" before the first pass, then how the last pass
                    \* ended: "done", "stopped" (st.stop) or "failed" (exception)
    df,             \* the frame load_data returned to this pass
    missing,        \* required columns found absent in this pass
    page,           \* elements the pass emitted, in order: <<kind, label>>
    start_date, end_date,
    assigned,       \* the script's names this pass bound
    dff,            \* the filtered view
    total_sales, total_profit, total_orders, avg_discount,
    sales_daily, profit_month, cat_sales, cat_profit, region_agg,
    scatter, top_sales, top_profit, top_sales_chart, top_profit_chart,
    state_sales,
    first           \* history: criteria and results of the session's first
                    \* pass, and whether a later pass left those criteria

vars == <<csv, cache, date_range, selection, status, df, missing, page,
          assigned, start_date, end_date, dff, total_sales, total_profit, total_orders,
          avg_discount, sales_daily, profit_month, cat_sales, cat_profit,
          region_agg, scatter, top_sales, top_profit, top_sales_chart,
          top_profit_chart, state_sales, first>>

-----------------------------------------------------------------------------
\* Bounds of the sampled files.
MaxRows == 2          \* rows of a sampled CSV
MaxProducts == 11     \* distinct products of a sampled product CSV

-----------------------------------------------------------------------------
\* Columns.
RequiredColsNoProfit == <<"Order Date", "Sales">>
required_cols == <<"Order Date", "Sales", "Profit">>
OptionalCols == {"Order ID", "Discount", "Category", "Region", "Product Name",
                 "State", "Segment", "Ship Mode", "Ship Date"}
AllCols == {"Order Date", "Sales", "Profit"} \cup OptionalCols
FilterDims == <<"Region", "Category", "Segment", "Ship Mode">>
DimSet == {FilterDims[i] : i \in 1..Len(FilterDims)}
HoverCandidates == <<"Category", "Sub-Category", "Region", "Segment">>

\* A missing text cell (pandas NaN) and a missing timestamp (pandas NaT).
NaN == "NaN"
NaT == 0
TopN == 10

\* The text values that occur in the samples, in lexical order: groupby puts
\* its keys in this order.
Lexicon == <<"CA", "Consumer", "Corporate", "East", "First Class",
             "Furniture", "NY", "O1", "O2", "P01", "P02", "P03", "P04", "P05",
             "P06", "P07", "P08", "P09", "P10", "P11", "P12", "P13", "P14",
             "Second Class", "Technology", "West">>

-----------------------------------------------------------------------------
\* Calendar of one non-leap year. A raw date cell is the text "m/d/2023",
\* written <<m, d>>; a parsed timestamp is the day of the year, 1..365.
DaysIn == <<31, 28, 31, 30, 31, 30, 31, 31, 30, 31, 30, 31>>
RECURSIVE DaysBefore(_)
DaysBefore(m) == IF m <= 1 THEN 0 ELSE DaysIn[m - 1] + DaysBefore(m - 1)
MonthStart(m) == DaysBefore(m) + 1
MonthEnd(m) == DaysBefore(m) + DaysIn[m]
MonthOf(day) == CHOOSE m \in 1..12 : MonthStart(m) <= day /\ day <= MonthEnd(m)

\* pd.to_datetime(..., errors="coerce"): a cell that is no calendar date is NaT.
ToDatetime(cell) ==
    IF /\ cell[1] \in 1..12
       /\ cell[2] >= 1
       /\ cell[2] <= DaysIn[cell[1]]
    THEN DaysBefore(cell[1]) + cell[2]
    ELSE NaT

-----------------------------------------------------------------------------
\* Sequence helpers.
RECURSIVE SumSeq(_, _)
SumSeq(rows, col) ==
    IF rows = <<>> THEN 0 ELSE Head(rows)[col] + SumSeq(Tail(rows), col)

Values(rows, col) == {rows[i][col] : i \in 1..Len(rows)}

MinOf(S) == CHOOSE x \in S : \A y \in S : x <= y
MaxOf(S) == CHOOSE x \in S : \A y \in S : x >= y

\* The dates of S in ascending order, and the texts of S in lexical order.
SortedDates(S) ==
    [k \in 1..Cardinality(S) |->
        CHOOSE x \in S : Cardinality({y \in S : y < x}) = k - 1]
SortedTexts(S) == SelectSeq(Lexicon, LAMBDA x : x \in S)

-----------------------------------------------------------------------------
\* load_data: parse both date columns when present, drop rows whose Order Date
\* did not parse. read_csv labels the rows 1, 2, ... ("index"), and a row keeps
\* its label through every later selection.
ParseRow(r, label) ==
    [c \in DOMAIN r \cup {"index"} |->
        IF c = "index" THEN label
        ELSE IF c \in {"Order Date", "Ship Date"} THEN ToDatetime(r[c])
        ELSE r[c]]

load_data(file) ==
    LET parsed == [i \in 1..Len(file.rows) |-> ParseRow(file.rows[i], i)]
    IN  [cols |-> file.cols,
         rows |-> IF "Order Date" \in file.cols
                  THEN SelectSeq(parsed, LAMBDA r : r["Order Date"] # NaT)
                  ELSE parsed]

\* What the cache holds after a pass: st.cache_data hands every pass its own
\* copy of the loaded frame and the view is a .copy(), so the entry stays the
\* loaded frame whatever the pass filtered.
CacheEntryShared(loaded, view) == view
CacheEntry(loaded, view) == loaded

MissingCols(frame) == SelectSeq(required_cols, LAMBDA c : c \notin frame.cols)

-----------------------------------------------------------------------------
\* Sidebar.
\* Series.min()/max() of no rows is NaT, and NaT.date() is NaT.
min_date(frame) ==
    IF frame.rows = <<>> THEN NaT ELSE MinOf(Values(frame.rows, "Order Date"))
max_date(frame) ==
    IF frame.rows = <<>> THEN NaT ELSE MaxOf(Values(frame.rows, "Order Date"))

\* multiselect_filter: the options are the non-null values of the column (the
\* widget lists them sorted; the script only tests membership and emptiness of
\* what it returns); no widget, and an empty list, without the column.
Options(frame, col) ==
    IF col \in frame.cols THEN Values(frame.rows, col) \ {NaN} ELSE {}

\* The widgets' values on the first pass of a session.
DefaultDateRange(frame) == <<min_date(frame), max_date(frame)>>
DefaultSelection(frame) == [c \in DimSet |-> Options(frame, c)]

\* date_input returns a 1-tuple while the user has picked one end only.
StartDate(frame, dr) == IF Len(dr) = 2 THEN dr[1] ELSE min_date(frame)
EndDate(frame, dr) == IF Len(dr) = 2 THEN dr[2] ELSE max_date(frame)

-----------------------------------------------------------------------------
\* Filtering.
DateMaskFromFrameMin(frame, s, e) ==
    [cols |-> frame.cols,
     rows |-> SelectSeq(frame.rows, LAMBDA r :
                 /\ r["Order Date"] > min_date(frame)
                 /\ r["Order Date"] <= e)]
DateMask(frame, s, e) ==
    [cols |-> frame.cols,
     rows |-> SelectSeq(frame.rows, LAMBDA r :
                 r["Order Date"] >= s /\ r["Order Date"] <= e)]

IsinAlways(frame, col, sel) ==
    IF col \in frame.cols
    THEN [cols |-> frame.cols,
          rows |-> SelectSeq(frame.rows, LAMBDA r : r[col] \in sel)]
    ELSE frame
IsinKeepsNull(frame, col, sel) ==
    IF col \in frame.cols /\ sel # {}
    THEN [cols |-> frame.cols,
          rows |-> SelectSeq(frame.rows, LAMBDA r : r[col] \in sel \cup {NaN})]
    ELSE frame
Isin(frame, col, sel) ==
    IF col \in frame.cols /\ sel # {}
    THEN [cols |-> frame.cols,
          rows |-> SelectSeq(frame.rows, LAMBDA r : r[col] \in sel)]
    ELSE frame

FilterView(frame, s, e, sel) ==
    Isin(Isin(Isin(Isin(DateMask(frame, s, e),
        "Region", sel["Region"]),
        "Category", sel["Category"]),
        "Segment", sel["Segment"]),
        "Ship Mode", sel["Ship Mode"])

-----------------------------------------------------------------------------
\* KPIs. A float is [nan, num, den]: NaN, or the ratio num/den in lowest terms.
RECURSIVE Gcd(_, _)
Gcd(a, b) == IF b = 0 THEN a ELSE Gcd(b, a % b)
Float(num, den) ==
    LET g == Gcd(IF num < 0 THEN -num ELSE num, den)
    IN  [nan |-> FALSE, num |-> num \div g, den |-> den \div g]
FloatNaN == [nan |-> TRUE, num |-> 0, den |-> 1]
FloatZero == Float(0, 1)

TotalSales(view) == SumSeq(view.rows, "Sales")
TotalProfit(view) == SumSeq(view.rows, "Profit")

\* nunique() does not count missing values.
TotalOrders(view) ==
    IF "Order ID" \in view.cols
    THEN Cardinality(Values(view.rows, "Order ID") \ {NaN})
    ELSE 0

\* A Discount cell is <<>> (missing) or <<p>>, p percent. mean() skips the
\* missing cells and is NaN when none is left.
RECURSIVE SumDiscount(_)
SumDiscount(rows) ==
    IF rows = <<>> THEN 0
    ELSE Head(rows)["Discount"][1] + SumDiscount(Tail(rows))
MeanDiscount(rows) ==
    LET present == SelectSeq(rows, LAMBDA r : r["Discount"] # <<>>)
    IN  IF present = <<>> THEN FloatNaN
        ELSE Float(SumDiscount(present), Len(present))
AvgDiscount(view) ==
    IF "Discount" \in view.cols THEN MeanDiscount(view.rows) ELSE FloatZero

-----------------------------------------------------------------------------
\* Aggregation tables: sequences of [key, val] records, val the summed column.
\* groupby(...)[col].sum(): one row per key, in ascending key order.
GroupSum(rows, keys, by, col) ==
    [k \in 1..Len(keys) |->
        [key |-> keys[k],
         val |-> SumSeq(SelectSeq(rows, LAMBDA r : r[by] = keys[k]), col)]]

\* groupby on a text column leaves out the rows whose key is missing.
GroupByCol(view, by, col) ==
    GroupSum(view.rows, SortedTexts(Values(view.rows, by) \ {NaN}), by, col)

\* sort_values on val. The default sort is not stable: rows of equal value come
\* out in their input order or in the reverse of it, by tie.
SortValues(t, ascending, tie) ==
    LET n == Len(t)
        Before(i, j) ==
            IF t[i].val # t[j].val
            THEN IF ascending THEN t[i].val < t[j].val ELSE t[i].val > t[j].val
            ELSE IF tie = "stable" THEN i < j ELSE i > j
        pos == [i \in 1..n |-> 1 + Cardinality({j \in 1..n : Before(j, i)})]
    IN  [k \in 1..n |-> t[CHOOSE i \in 1..n : pos[i] = k]]

HeadN(t, n) == SubSeq(t, 1, IF Len(t) < n THEN Len(t) ELSE n)

SalesDaily(view) ==
    GroupSum(view.rows, SortedDates(Values(view.rows, "Order Date")),
             "Order Date", "Sales")

\* resample("M").sum(): one bucket per calendar month from the first row's
\* month to the last row's, labelled with the month's last day; a month
\* without rows sums to 0.
ProfitMonthStartLabel(view) ==
    IF view.rows = <<>> THEN <<>>
    ELSE LET lo == MonthOf(min_date(view))
             hi == MonthOf(max_date(view))
         IN  [k \in 1..(hi - lo + 1) |->
                [key |-> MonthStart(lo + k - 1),
                 val |-> SumSeq(SelectSeq(view.rows, LAMBDA r :
                            MonthOf(r["Order Date"]) = lo + k - 1), "Profit")]]
ProfitMonth(view) ==
    IF view.rows = <<>> THEN <<>>
    ELSE LET lo == MonthOf(min_date(view))
             hi == MonthOf(max_date(view))
         IN  [k \in 1..(hi - lo + 1) |->
                [key |-> MonthEnd(lo + k - 1),
                 val |-> SumSeq(SelectSeq(view.rows, LAMBDA r :
                            MonthOf(r["Order Date"]) = lo + k - 1), "Profit")]]

CatSales(view, tie) == SortValues(GroupByCol(view, "Category", "Sales"), FALSE, tie)
CatProfit(view, tie) == SortValues(GroupByCol(view, "Category", "Profit"), TRUE, tie)

\* groupby("Region")[["Sales", "Profit"]].sum(), ordered by Sales descending.
RegionAgg(view, tie) ==
    LET bySales == GroupByCol(view, "Region", "Sales")
        both == [k \in 1..Len(bySales) |->
                    [key |-> bySales[k].key, val |-> bySales[k].val,
                     Profit |-> GroupByCol(view, "Region", "Profit")[k].val]]
    IN  SortValues(both, FALSE, tie)

\* The scatter's points and hover columns.
Scatter(view) ==
    [points |-> [i \in 1..Len(view.rows) |->
                    <<view.rows[i]["Discount"], view.rows[i]["Profit"]>>],
     hover |-> SelectSeq(HoverCandidates, LAMBDA c : c \in view.cols)]

\* sort_values(ascending=False).head(10)
TopSmallest(view, col, tie) ==
    HeadN(SortValues(GroupByCol(view, "Product Name", col), TRUE, tie), TopN)
Top(view, col, tie) ==
    HeadN(SortValues(GroupByCol(view, "Product Name", col), FALSE, tie), TopN)
\* top_sales.sort_values("Sales"), the frame the bar chart is drawn from
TopChart(top, tie) == SortValues(top, TRUE, tie)

StateSales(view, tie) == SortValues(GroupByCol(view, "State", "Sales"), FALSE, tie)

-----------------------------------------------------------------------------
\* The page: what st.* calls emit, in script order.
Header ==
    << <<"title", "E-Commerce (Superstore) Streamlit Dashboard">>,
       <<"caption", "Filters + KPIs + Trends + Product/Region/Category analysis">> >>

ErrorBox == << <<"error", "Missing required columns in CSV">> >>

Sidebar(cols) ==
    << <<"widget", "Order Date range">> >>
    \o [i \in 1..Len(SelectSeq(FilterDims, LAMBDA c : c \in cols)) |->
            <<"widget", SelectSeq(FilterDims, LAMBDA c : c \in cols)[i]>>]

Metrics ==
    << <<"metric", "Total Sales">>, <<"metric", "Total Profit">>,
       <<"metric", "Orders">>, <<"metric", "Avg Discount">> >>

\* A chart under its subheader, or the st.info of the else branch.
SectionNoNotice(title, col, cols, notice) ==
    << <<"subheader", title>> >>
    \o (IF col \in cols THEN << <<"chart", title>> >> ELSE <<>>)
Section(title, col, cols, notice) ==
    << <<"subheader", title>> >>
    \o (IF col \in cols THEN << <<"chart", title>> >> ELSE << <<"info", notice>> >>)

Body(cols) ==
    Metrics
    \o << <<"subheader", "Sales Over Time">>, <<"chart", "Sales Over Time">>,
          <<"subheader", "Monthly Profit Trend">>, <<"chart", "Monthly Profit Trend">> >>
    \o Section("Sales by Category", "Category", cols, "Category column not found.")
    \o Section("Profit by Category", "Category", cols, "Category column not found.")
    \o Section("Sales vs Profit by Region", "Region", cols, "Region column not found.")
    \o Section("Discount vs Profit", "Discount", cols, "Discount/Profit columns not found.")
    \o << <<"subheader", "Top 10 Products (Sales / Profit)">> >>
    \o (IF "Product Name" \in cols
        THEN << <<"chart", "Top 10 Sales">>, <<"chart", "Top 10 Profit">> >>
        ELSE << <<"info", "Product Name column not found.">> >>)
    \o (IF "State" \in cols
        THEN << <<"subheader", "Sales by State (table)">>, <<"dataframe", "state_sales">> >>
        ELSE <<>>)
    \o << <<"dataframe", "dff">> >>

\* The names a pass binds: a table under an `if <column> in dff.columns` is
\* bound only when the column is there.
AssignedOnStop == {"df", "required_cols", "missing"}
AssignedOnRender(cols) ==
    AssignedOnStop
    \cup {"min_date", "max_date", "date_range", "start_date", "end_date",
          "regions", "categories", "segments", "ship_modes", "dff",
          "total_sales", "total_profit", "total_orders", "avg_discount",
          "sales_daily", "profit_month"}
    \cup (IF "Category" \in cols THEN {"cat_sales", "cat_profit"} ELSE {})
    \cup (IF "Region" \in cols THEN {"region_agg"} ELSE {})
    \cup (IF "Discount" \in cols THEN {"hover_cols"} ELSE {})
    \cup (IF "Product Name" \in cols THEN {"top_sales", "top_profit"} ELSE {})
    \cup (IF "State" \in cols THEN {"state_sales"} ELSE {})

EmptyFrame == [cols |-> {}, rows |-> <<>>]
NoScatter == [points |-> <<>>, hover |-> <<>>]
NoSelection == [c \in DimSet |-> {}]
NoFirst == [set |-> FALSE, left |-> FALSE, date_range |-> <<>>, selection |-> NoSelection,
            dff |-> EmptyFrame, total_sales |-> 0, total_profit |-> 0,
            total_orders |-> 0, avg_discount |-> FloatZero]

-----------------------------------------------------------------------------
\* One pass of the script.

\* st.error + st.stop(): nothing after the required-column check runs.
Stop(frame) ==
    /\ status' = "stopped"
    /\ df' = frame
    /\ missing' = MissingCols(frame)
    /\ page' = Header \o ErrorBox
    /\ assigned' = AssignedOnStop
    /\ cache' = [hit |-> TRUE, frame |-> CacheEntry(frame, frame)]
    /\ UNCHANGED <<date_range, selection, first>>
    /\ start_date' = NaT
    /\ end_date' = NaT
    /\ dff' = EmptyFrame
    /\ total_sales' = 0
    /\ total_profit' = 0
    /\ total_orders' = 0
    /\ avg_discount' = FloatZero
    /\ sales_daily' = <<>>
    /\ profit_month' = <<>>
    /\ cat_sales' = <<>>
    /\ cat_profit' = <<>>
    /\ region_agg' = <<>>
    /\ scatter' = NoScatter
    /\ top_sales' = <<>>
    /\ top_profit' = <<>>
    /\ top_sales_chart' = <<>>
    /\ top_profit_chart' = <<>>
    /\ state_sales' = <<>>

\* A pass that reaches df["Order Date"], dff["Sales"] or dff["Profit"] without
\* the column raises KeyError there and ends.
Crash(frame) ==
    /\ status' = "failed"
    /\ df' = frame
    /\ missing' = MissingCols(frame)
    /\ page' = Header \o << <<"exception", "KeyError">> >>
    /\ assigned' = AssignedOnStop
    /\ cache' = [hit |-> TRUE, frame |-> CacheEntry(frame, frame)]
    /\ UNCHANGED <<date_range, selection, first, start_date, end_date, dff,
                   total_sales, total_profit, total_orders, avg_discount,
                   sales_daily, profit_month, cat_sales, cat_profit, region_agg,
                   scatter, top_sales, top_profit, top_sales_chart,
                   top_profit_chart, state_sales>>

Render(frame, dr, sel, tie) ==
    LET s == StartDate(frame, dr)
        e == EndDate(frame, dr)
        view == FilterView(frame, s, e, sel)
        has(c) == c \in view.cols
        tops == IF has("Product Name") THEN Top(view, "Sales", tie) ELSE <<>>
        topp == IF has("Product Name") THEN Top(view, "Profit", tie) ELSE <<>>
    IN  /\ status' = "done"
        /\ df' = frame
        /\ missing' = <<>>
        /\ page' = Header \o Sidebar(frame.cols) \o Body(view.cols)
        /\ assigned' = AssignedOnRender(view.cols)
        /\ cache' = [hit |-> TRUE, frame |-> CacheEntry(frame, view)]
        /\ date_range' = dr
        /\ selection' = sel
        /\ start_date' = s
        /\ end_date' = e
        /\ dff' = view
        /\ total_sales' = TotalSales(view)
        /\ total_profit' = TotalProfit(view)
        /\ total_orders' = TotalOrders(view)
        /\ avg_discount' = AvgDiscount(view)
        /\ sales_daily' = SalesDaily(view)
        /\ profit_month' = ProfitMonth(view)
        /\ cat_sales' = IF has("Category") THEN CatSales(view, tie) ELSE <<>>
        /\ cat_profit' = IF has("Category") THEN CatProfit(view, tie) ELSE <<>>
        /\ region_agg' = IF has("Region") THEN RegionAgg(view, tie) ELSE <<>>
        /\ scatter' = IF has("Discount") THEN Scatter(view) ELSE NoScatter
        /\ top_sales' = tops
        /\ top_profit' = topp
        /\ top_sales_chart' = TopChart(tops, tie)
        /\ top_profit_chart' = TopChart(topp, tie)
        /\ state_sales' = IF has("State") THEN StateSales(view, tie) ELSE <<>>
        /\ first' = IF first.set
                    THEN [first EXCEPT !.left =
                            @ \/ dr # first.date_range \/ sel # first.selection]
                    ELSE [set |-> TRUE, left |-> FALSE, date_range |-> dr, selection |-> sel,
                          dff |-> view,
                          total_sales |-> TotalSales(view),
                          total_profit |-> TotalProfit(view),
                          total_orders |-> TotalOrders(view),
                          avg_discount |-> AvgDiscount(view)]

\* load_data is memoized on the path: the file is read on the first pass only.
Loaded == IF cache.hit THEN cache.frame ELSE load_data(csv)

TieBreaks == {"stable", "reversed"}

\* The dates a user picks: an ordered pair of order dates
\* of the data or the day after the last one, or a 1-tuple (one end picked,
\* whose day the script never reads).
DatePicks(frame) ==
    LET days == Values(frame.rows, "Order Date") \cup {max_date(frame) + 1}
    IN  {<<min_date(frame)>>} \cup {p \in days \X days : p[1] <= p[2]}

\* A browser opens the app: every widget takes its default.
StartSession ==
    /\ status = "none"
    /\ csv' = csv
    /\ IF MissingCols(Loaded) # <<>>
       THEN Stop(Loaded)
       ELSE IF ~({"Order Date", "Sales", "Profit"} \subseteq Loaded.cols)
       THEN Crash(Loaded)
       ELSE \E tie \in TieBreaks :
               Render(Loaded, DefaultDateRange(Loaded), DefaultSelection(Loaded), tie)

\* The user changes the date range; the script re-runs.
ChangeDateRange ==
    /\ status = "done"
    /\ csv' = csv
    /\ \E dr \in DatePicks(df), tie \in TieBreaks :
          /\ dr # date_range
          /\ Render(Loaded, dr, selection, tie)

\* The user changes one multiselect; the script re-runs.
ChangeMultiselect ==
    /\ status = "done"
    /\ csv' = csv
    /\ \E c \in DimSet, tie \in TieBreaks :
          /\ c \in df.cols
          /\ \E sel \in SUBSET Options(df, c) :
                /\ sel # selection[c]
                /\ Render(Loaded, date_range, [selection EXCEPT ![c] = sel], tie)

Next == StartSession \/ ChangeDateRange \/ ChangeMultiselect

-----------------------------------------------------------------------------
\* Sampled CSV files.
MkRow(od, sd, rg, cat, seg, ship, sales, profit, disc, oid, prod, st) ==
    [c \in AllCols |->
        CASE c = "Order Date" -> od
          [] c = "Ship Date" -> sd
          [] c = "Region" -> rg
          [] c = "Category" -> cat
          [] c = "Segment" -> seg
          [] c = "Ship Mode" -> ship
          [] c = "Sales" -> sales
          [] c = "Profit" -> profit
          [] c = "Discount" -> disc
          [] c = "Order ID" -> oid
          [] c = "Product Name" -> prod
          [] c = "State" -> st]

File(cols, rows) ==
    [cols |-> cols,
     rows |-> [i \in 1..Len(rows) |-> [c \in cols |-> rows[i][c]]]]

SeqsUpTo(S, n) == UNION {[1..k -> S] : k \in 1..n}

\* The script's own preconditions on the file: some row has a date that parses.
Loadable(file) == "Order Date" \in file.cols => load_data(file).rows # <<>>

InitWith(files) ==
    /\ csv \in {f \in files : Loadable(f)}
    /\ cache = [hit |-> FALSE, frame |-> EmptyFrame]
    /\ date_range = <<>>
    /\ selection = NoSelection
    /\ status = "none"
    /\ df = EmptyFrame
    /\ missing = <<>>
    /\ page = <<>>
    /\ assigned = {}
    /\ start_date = NaT
    /\ end_date = NaT
    /\ dff = EmptyFrame
    /\ total_sales = 0
    /\ total_profit = 0
    /\ total_orders = 0
    /\ avg_discount = FloatZero
    /\ sales_daily = <<>>
    /\ profit_month = <<>>
    /\ cat_sales = <<>>
    /\ cat_profit = <<>>
    /\ region_agg = <<>>
    /\ scatter = NoScatter
    /\ top_sales = <<>>
    /\ top_profit = <<>>
    /\ top_sales_chart = <<>>
    /\ top_profit_chart = <<>>
    /\ state_sales = <<>>
    /\ first = NoFirst

\* Rows that differ in Order Date, Region and Category.
RowsRegionCategory ==
    {MkRow(dc[1], <<1, 31>>, rg, dc[2], "Consumer", "First Class",
           IF rg = "East" THEN 3 ELSE 2, IF dc[2] = NaN THEN -1 ELSE 1,
           <<20>>, "O1", "P01", "CA") :
        rg \in {NaN, "East", "West"},
        dc \in {<< <<1, 1>>, NaN >>, << <<1, 1>>, "Furniture" >>,
                << <<2, 1>>, "Furniture" >>}}

\* Rows that differ in Segment and Ship Mode, some with a date that does not
\* parse (February 30th).
RowsSegmentShip ==
    {MkRow(od, <<od[1], od[2] + 28>>, "East", "Furniture", seg, ship,
           IF seg = "Consumer" THEN 3 ELSE 2, 1, <<20>>, "O1", "P01", "CA") :
        od \in {<<1, 1>>, <<2, 30>>}, seg \in {NaN, "Consumer"},
        ship \in {NaN, "First Class"}}

FilterFiles ==
    {File(AllCols \ {"Segment", "Ship Mode"}, rows) :
        rows \in SeqsUpTo(RowsRegionCategory, MaxRows)}
    \cup {File(AllCols \ {"Region", "Category"}, rows) :
            rows \in SeqsUpTo(RowsSegmentShip, MaxRows)}
    \cup {File(AllCols, <<r>>) : r \in RowsRegionCategory \cup RowsSegmentShip}

InitFilter == InitWith(FilterFiles)
SpecFilter == InitFilter /\ [][Next]_vars

-----------------------------------------------------------------------------
\* Properties of the filtered view.

\* The rows of a frame at the positions in keep, in frame order.
PickRows(rows, keep) ==
    [k \in 1..Cardinality(keep) |->
        rows[CHOOSE i \in keep : Cardinality({j \in keep : j < i}) = k - 1]]

InRange(r) == r["Order Date"] >= start_date /\ r["Order Date"] <= end_date
Active(c) == c \in df.cols /\ selection[c] # {}
Passes(r, c) == Active(c) => r[c] \in selection[c]
InView(r) == \E k \in 1..Len(dff.rows) : dff.rows[k] = r

\* C1: the filtered view is exactly the rows of the dataset, in dataset order,
\* whose Order Date lies in [start_date, end_date] and whose value is in the
\* selection of every dimension that has a column and a non-empty selection.
C1_FilterExact ==
    status = "done" =>
        /\ dff.cols = df.cols
        /\ dff.rows = PickRows(df.rows,
               {i \in 1..Len(df.rows) :
                   /\ InRange(df.rows[i])
                   /\ \A c \in DimSet : Passes(df.rows[i], c)})

\* A pass where one dimension is unconstrained (empty selection), another
\* removed a row that is in the date range, and a row remained.
C1_Witness ==
    /\ status = "done"
    /\ dff.rows # <<>>
    /\ \E c \in DimSet : c \in df.cols /\ selection[c] = {} /\ Options(df, c) # {}
    /\ \E i \in 1..Len(df.rows), c \in DimSet :
          /\ InRange(df.rows[i])
          /\ Active(c)
          /\ df.rows[i][c] \notin selection[c]

\* C8: filtering the filtered view again with the same criteria returns it
\* unchanged, rows and order.
C8_Idempotent ==
    status = "done" => FilterView(dff, start_date, end_date, selection) = dff

\* A pass whose view kept the later of two rows and dropped the earlier one
\* by its date.
C8_Witness ==
    /\ status = "done"
    /\ Len(df.rows) >= 2
    /\ Len(dff.rows) >= 1
    /\ dff.rows[1] = df.rows[Len(df.rows)]
    /\ df.rows[1]["Order Date"] < start_date

\* C10: a row with a missing value in a present filter dimension is in the view
\* iff it is in the date range, that dimension's selection is empty and it
\* passes the other dimensions; under the default criteria it is excluded as
\* soon as the column has a non-null value.
C10_NullRows ==
    status = "done" =>
        \A i \in 1..Len(df.rows), c \in DimSet :
            (c \in df.cols /\ df.rows[i][c] = NaN) =>
                /\ InView(df.rows[i]) <=>
                      /\ InRange(df.rows[i])
                      /\ selection[c] = {}
                      /\ \A d \in DimSet \ {c} : Passes(df.rows[i], d)
                /\ ( /\ date_range = <<min_date(df), max_date(df)>>
                     /\ \A d \in DimSet : d \in df.cols =>
                            selection[d] = Values(df.rows, d) \ {NaN}
                     /\ Values(df.rows, c) # {NaN} )
                   => ~InView(df.rows[i])

\* The default pass left out a row with a missing value, so the default view
\* is not the whole dataset.
C10_Witness ==
    /\ status = "done"
    /\ ~first.left
    /\ Len(dff.rows) < Len(df.rows)
    /\ \E i \in 1..Len(df.rows), c \in DimSet :
          c \in df.cols /\ df.rows[i][c] = NaN /\ ~InView(df.rows[i])

\* C9: every interaction is one pass run to its end, the loaded dataset is
\* what load_data made of the file whatever was filtered before, and a pass
\* with the criteria of the session's first pass has that pass's view and KPIs.
C9_PureRecompute ==
    status # "none" =>
        /\ df = load_data(csv)
        /\ cache = [hit |-> TRUE, frame |-> load_data(csv)]
        /\ status = "stopped" => page[Len(page)] = <<"error", "Missing required columns in CSV">>
        /\ status = "done" =>
              /\ page[Len(page)] = <<"dataframe", "dff">>
              /\ dff = FilterView(df, StartDate(df, date_range),
                                  EndDate(df, date_range), selection)
              /\ (date_range = first.date_range /\ selection = first.selection) =>
                    /\ dff = first.dff
                    /\ total_sales = first.total_sales
                    /\ total_profit = first.total_profit
                    /\ total_orders = first.total_orders
                    /\ avg_discount = first.avg_discount

\* A session that narrowed the view and came back to its first criteria.
C9_Witness ==
    /\ status = "done"
    /\ first.left
    /\ date_range = first.date_range
    /\ selection = first.selection
    /\ dff.rows # <<>>
    /\ Len(dff.rows) < Len(df.rows)

RECURSIVE SumVal(_)
SumVal(t) == IF t = <<>> THEN 0 ELSE Head(t).val + SumVal(Tail(t))

\* C2: an empty filtered view gives four KPIs equal to zero (avg_discount 0.0,
\* not NaN) and aggregation tables without rows.
C2_EmptyViewAllZero ==
    (status = "done" /\ dff.rows = <<>>) =>
        /\ total_sales = 0
        /\ total_profit = 0
        /\ total_orders = 0
        /\ avg_discount = FloatZero
        /\ sales_daily = <<>>
        /\ profit_month = <<>>
        /\ cat_sales = <<>>
        /\ cat_profit = <<>>
        /\ region_agg = <<>>
        /\ top_sales_chart = <<>>
        /\ top_profit_chart = <<>>
        /\ state_sales = <<>>

\* C4: with a Category column, the Sales of the sales-by-category table add up
\* to total_sales.
C4_CategoryPartition ==
    (status = "done" /\ "Category" \in df.cols) => SumVal(cat_sales) = total_sales

-----------------------------------------------------------------------------
\* Files that lack columns: every set of optional columns with the required
\* ones, and every set of required columns with all or none of the optional.
ColumnRows ==
    << MkRow(<<1, 1>>, <<1, 31>>, "East", NaN, "Consumer", NaN,
             3, 1, <<20>>, "O1", "P01", "CA"),
       MkRow(<<2, 30>>, <<2, 30>>, "West", NaN, NaN, NaN,
             2, -1, <<>>, "O1", "P02", "NY") >>

ColumnFiles ==
    {File({"Order Date", "Sales", "Profit"} \cup opt, ColumnRows) :
        opt \in SUBSET OptionalCols}
    \cup {File(req \cup opt, ColumnRows) :
            req \in SUBSET {"Order Date", "Sales", "Profit"},
            opt \in {{}, OptionalCols}}

InitColumns == InitWith(ColumnFiles)
SpecColumns == InitColumns /\ [][Next]_vars

Kinds(kind) == {page[i][2] : i \in {j \in 1..Len(page) : page[j][1] = kind}}

\* C3: with Order Date, Sales or Profit absent the pass shows an error for the
\* missing columns and halts there: load_data returned the file's rows, no
\* widget, filter, KPI or table follows.
C3_HaltOnMissing ==
    status # "none" =>
        /\ status \in {"done", "stopped"}
        /\ status = "stopped" <=> ~({"Order Date", "Sales", "Profit"} \subseteq csv.cols)
        /\ status = "stopped" =>
              /\ missing = SelectSeq(<<"Order Date", "Sales", "Profit">>,
                                     LAMBDA c : c \notin csv.cols)
              /\ page[Len(page)] = <<"error", "Missing required columns in CSV">>
              /\ Kinds("widget") \cup Kinds("metric") \cup Kinds("chart")
                    \cup Kinds("dataframe") \cup Kinds("info") = {}
              /\ assigned = {"df", "required_cols", "missing"}
              /\ df.cols = csv.cols
              /\ "Order Date" \notin csv.cols => Len(df.rows) = Len(csv.rows)
              /\ dff = EmptyFrame
              /\ date_range = <<>>

\* A halted pass on a file that has Order Date but neither Sales nor Profit.
C3_Witness ==
    /\ status = "stopped"
    /\ missing = <<"Sales", "Profit">>
    /\ Len(df.rows) < Len(csv.rows)

\* The notice a section shows for its absent column.
NoticeOf(c) ==
    IF c = "Discount" THEN "Discount/Profit columns not found."
    ELSE c \o " column not found."
Dependents == {"Order ID", "Discount", "Category", "Region", "Product Name", "State"}

\* C7 as stated: a pass over a file with the required columns ends normally and
\* shows a notice for every absent optional column a KPI or table depends on.
C7_NoticeForEveryAbsent ==
    (status # "none" /\ {"Order Date", "Sales", "Profit"} \subseteq csv.cols) =>
        /\ status = "done"
        /\ \A c \in Dependents \ csv.cols : NoticeOf(c) \in Kinds("info")

\* C7 as amended: the pass ends normally; every KPI or table of an absent
\* column is zero, empty or unbound; the notices shown are exactly those of
\* the absent columns among Category, Region, Discount and Product Name, so
\* none is shown for Order ID or State.
C7_Fallbacks ==
    (status # "none" /\ {"Order Date", "Sales", "Profit"} \subseteq csv.cols) =>
        /\ status = "done"
        /\ "Order ID" \notin csv.cols => total_orders = 0
        /\ "Discount" \notin csv.cols =>
              avg_discount = FloatZero /\ scatter = NoScatter
        /\ "Category" \notin csv.cols =>
              /\ cat_sales = <<>> /\ cat_profit = <<>>
              /\ {"cat_sales", "cat_profit"} \cap assigned = {}
        /\ "Region" \notin csv.cols =>
              region_agg = <<>> /\ "region_agg" \notin assigned
        /\ "Product Name" \notin csv.cols =>
              /\ top_sales_chart = <<>> /\ top_profit_chart = <<>>
              /\ {"top_sales", "top_profit"} \cap assigned = {}
        /\ "State" \notin csv.cols =>
              /\ state_sales = <<>> /\ "state_sales" \notin assigned
              /\ "state_sales" \notin Kinds("dataframe")
        /\ Kinds("info") =
              {NoticeOf(c) : c \in {"Category", "Region", "Discount", "Product Name"}
                                    \ csv.cols}

\* A finished pass over a file without Region and State: one notice, no
\* state table.
C7_Witness ==
    /\ status = "done"
    /\ OptionalCols \ csv.cols = {"Region", "State"}
    /\ Kinds("info") = {"Region column not found."}
    /\ total_sales > 0

-----------------------------------------------------------------------------
\* Files whose rows spread over January, February and March; the i-th row's
\* Profit is 2i - 3.
MonthDates == {<<1, 1>>, <<1, 31>>, <<2, 1>>, <<3, 31>>}
MonthFiles ==
    {File({"Order Date", "Sales", "Profit", "Region"},
          [i \in 1..Len(ds) |->
              MkRow(ds[i], ds[i], "East", NaN, NaN, NaN, 1, 2 * i - 3,
                    <<>>, NaN, NaN, NaN)]) :
        ds \in SeqsUpTo(MonthDates, MaxRows + 1)}

InitMonth == InitWith(MonthFiles)
SpecMonth == InitMonth /\ [][Next]_vars

ViewMonths == {MonthOf(dff.rows[i]["Order Date"]) : i \in 1..Len(dff.rows)}
MonthProfit(m) ==
    SumSeq(SelectSeq(dff.rows, LAMBDA r : MonthOf(r["Order Date"]) = m), "Profit")

\* C5 as stated: a view whose rows fall in exactly two calendar months has two
\* buckets, keyed by the first day of each month, in month order, holding the
\* month's Profit.
C5_TwoBucketsByMonthStart ==
    (status = "done" /\ Cardinality(ViewMonths) = 2) =>
        profit_month =
            << [key |-> MonthStart(MinOf(ViewMonths)), val |-> MonthProfit(MinOf(ViewMonths))],
               [key |-> MonthStart(MaxOf(ViewMonths)), val |-> MonthProfit(MaxOf(ViewMonths))] >>

\* C5 as amended: such a view has one bucket for every calendar month from the
\* earlier to the later (two when they are adjacent), in month order, each
\* keyed by the last day of its month and holding the Profit of the month's
\* rows whatever their day, 0 for a month between the two.
C5_BucketsByMonthEnd ==
    (status = "done" /\ Cardinality(ViewMonths) = 2) =>
        LET lo == MinOf(ViewMonths)
            hi == MaxOf(ViewMonths)
        IN  /\ Len(profit_month) = hi - lo + 1
            /\ \A k \in 1..Len(profit_month) :
                  /\ profit_month[k].key = MonthEnd(lo + k - 1)
                  /\ profit_month[k].val = MonthProfit(lo + k - 1)
                  /\ (lo + k - 1) \notin ViewMonths => profit_month[k].val = 0

\* A view of three rows, two on different days of January and one in March.
C5_Witness ==
    /\ status = "done"
    /\ Len(dff.rows) = 3
    /\ ViewMonths = {1, 3}
    /\ Cardinality(Values(dff.rows, "Order Date")) = 3
    /\ Len(profit_month) = 3

-----------------------------------------------------------------------------
\* Files of n products, one row each in descending name order with Sales
\* 1 + (i*a + b) % m and Profit (i*b + a) % 5 - 2, then a second row of the
\* first product and a row without a product name.
ProductNames == <<"P01", "P02", "P03", "P04", "P05", "P06", "P07", "P08",
                  "P09", "P10", "P11", "P12", "P13", "P14">>
ProductRow(name, sales, profit) ==
    MkRow(<<1, 1>>, <<1, 31>>, "East", NaN, NaN, NaN, sales, profit,
          <<>>, NaN, name, NaN)
ProductFiles ==
    {File({"Order Date", "Sales", "Profit", "Region", "Product Name"},
          [i \in 1..n |->
              ProductRow(ProductNames[n + 1 - i],
                         1 + (((n + 1 - i) * a + b) % m),
                         (((n + 1 - i) * b + a) % 5) - 2)]
          \o << ProductRow("P01", 2, 1), ProductRow(NaN, 99, 99) >>) :
        n \in 1..MaxProducts, a \in 1..3, b \in 0..2, m \in {4, 13}}

InitProducts == InitWith(ProductFiles)
SpecProducts == InitProducts /\ [][Next]_vars

ViewProducts == Values(dff.rows, "Product Name") \ {NaN}
ProductSum(name, col) ==
    SumSeq(SelectSeq(dff.rows, LAMBDA r : r["Product Name"] = name), col)
Keys(t) == {t[k].key : k \in 1..Len(t)}

\* The chart table t is the top 10 of the products' sums of col, ascending.
IsTopTen(t, col) ==
    /\ Len(t) = (IF Cardinality(ViewProducts) < 10 THEN Cardinality(ViewProducts) ELSE 10)
    /\ Cardinality(Keys(t)) = Len(t)
    /\ Keys(t) \subseteq ViewProducts
    /\ \A k \in 1..Len(t) : t[k].val = ProductSum(t[k].key, col)
    /\ \A k \in 1..Len(t), name \in ViewProducts \ Keys(t) :
          t[k].val >= ProductSum(name, col)
    /\ \A k \in 1..(Len(t) - 1) : t[k].val <= t[k + 1].val

\* C6: with n distinct product names in the view, each top-10 chart table has
\* min(n, 10) entries, every entry's sum is at least every left-out product's
\* sum, and the entries ascend; for Sales and for Profit.
C6_TopTen ==
    (status = "done" /\ "Product Name" \in dff.cols) =>
        /\ IsTopTen(top_sales_chart, "Sales")
        /\ IsTopTen(top_profit_chart, "Profit")

\* A view of more than ten products where a left-out product ties with an
\* entry and another left-out product sells less than every entry.
C6_Witness ==
    /\ status = "done"
    /\ Cardinality(ViewProducts) > 10
    /\ Len(top_sales_chart) = 10
    /\ \E name \in ViewProducts \ Keys(top_sales_chart) :
          ProductSum(name, "Sales") < top_sales_chart[1].val
    /\ top_sales_chart[1].val < top_sales_chart[10].val

====
